---- MODULE Spec2Model ----
(***************************************************************************)
(* Point-in-time lookup of auditlog/history.py:                            *)
(* HistoricalStateLookupManagerMixin.get_object_state_at_timestamp and     *)
(* get_field_state_at_timestamp over a table of LogEntry rows.             *)
(***************************************************************************)
EXTENDS Integers, Sequences, FiniteSets

(* ---------------------------------------------------------------------- *)
(* Bounds of the model                                                     *)
(* ---------------------------------------------------------------------- *)
\* most LogEntry rows the table holds
MaxLog == 2

Instances == {1, 2}
\* the timestamps rows carry, and the timestamps queries ask for (0 is before
\* every row)
Timestamps == {1, 2}
QueryTimestamps == {0} \cup Timestamps
FieldNames == {"name", "color"}

(* ---------------------------------------------------------------------- *)
(* Python values                                                           *)
(* ---------------------------------------------------------------------- *)
\* Python None where a string-like value is expected (a JSON null, value=None)
None == "None"
\* Python None where a datetime or an int id is expected (timestamp=None,
\* log_entry_id=None); row ids and row timestamps start at 1
NoneInt == 0
\* marks a key a dict does not hold
Absent == "absent"
\* owner of an object no LogEntry row refers to
Fresh == 0
\* the value a caller writes into a mapping it was returned
Altered == "altered"

StoredValues == {"a", None}

\* A JSON value as Python loads it: type is the Python type, dict the items of a
\* dict (Absent for a key not held), list the items of a list, owner the id of
\* the LogEntry row whose serialized_data the object is part of (Fresh for an
\* object of its own).
JsonObject(t, d, l, o) == [type |-> t, dict |-> d, list |-> l, owner |-> o]
EmptyItems == [f \in FieldNames |-> Absent]
NoneObject == JsonObject("NoneType", EmptyItems, <<>>, Fresh)
EmptyDict == JsonObject("dict", EmptyItems, <<>>, Fresh)
DictObject(d) == JsonObject("dict", d, <<>>, Fresh)
ListObject(l) == JsonObject("list", EmptyItems, l, Fresh)

\* the mappings a snapshot's "fields" entry holds in this model: no key or one
FieldDicts ==
    { d \in [FieldNames -> StoredValues \cup {Absent}] :
        \E f \in FieldNames : \A g \in FieldNames \ {f} : d[g] = Absent }

\* what the "fields" entry of a serialized_data dict can be: a dict (empty or
\* not), a list (empty or not), null
FieldsEntries ==
    { DictObject(d) : d \in FieldDicts }
        \cup { ListObject(<<>>), ListObject(<<"name">>), NoneObject }

\* LogEntry.serialized_data (a nullable JSONField): null, a JSON value that is
\* no dict, a dict without "fields", a dict with a "fields" entry
SerializedData ==
    { [type |-> "NoneType", has_fields |-> FALSE, fields |-> NoneObject],
      [type |-> "str", has_fields |-> FALSE, fields |-> NoneObject],
      [type |-> "dict", has_fields |-> FALSE, fields |-> NoneObject] }
        \cup { [type |-> "dict", has_fields |-> TRUE, fields |-> f] :
                 f \in FieldsEntries }

\* the rows the write path creates: every payload for the first object, one
\* well-formed payload for the second
Writes ==
    { <<1, t, d>> : t \in Timestamps, d \in SerializedData }
        \cup { <<2, t, [type |-> "dict", has_fields |-> TRUE,
                       fields |-> DictObject([EmptyItems EXCEPT !["name"] = "a"])]>> :
                 t \in Timestamps }

VARIABLES
    log,       \* the LogEntry table, in the order the rows were created
    scan,      \* the order the backend yields rows of equal timestamp in
    returned   \* the dataclass instance (or the exception) the last call gave

vars == <<log, scan, returned>>

(* ---------------------------------------------------------------------- *)
(* The LogEntry table and the writer                                       *)
(* ---------------------------------------------------------------------- *)
LogEntry(id, object_pk, timestamp, serialized_data) ==
    [id |-> id,
     object_pk |-> object_pk,
     timestamp |-> timestamp,
     serialized_data |->
        IF serialized_data.has_fields
            THEN [serialized_data EXCEPT !.fields.owner = id]
            ELSE serialized_data]

\* what .first() gives on an empty queryset
NoLogEntry ==
    [id |-> NoneInt, object_pk |-> NoneInt, timestamp |-> NoneInt,
     serialized_data |->
        [type |-> "NoneType", has_fields |-> FALSE, fields |-> NoneObject]]

\* The write path adds one row, which gets the next id.
CreateLogEntry(object_pk, timestamp, serialized_data) ==
    /\ Len(log) < MaxLog
    /\ log' = Append(log,
                  LogEntry(Len(log) + 1, object_pk, timestamp, serialized_data))
    /\ UNCHANGED <<scan, returned>>

RECURSIVE Reverse(_)
Reverse(rows) ==
    IF rows = <<>> THEN <<>> ELSE Reverse(Tail(rows)) \o <<Head(rows)>>

\* The rows as the backend yields them before sorting. ORDER BY timestamp
\* leaves the order of rows of equal timestamp to the backend: it is one fixed
\* order, oldest row first or newest row first.
Table(rows, order) == IF order = "forward" THEN rows ELSE Reverse(rows)

(* ---------------------------------------------------------------------- *)
(* The queryset: get_for_object(..).filter(..).order_by(..).first()        *)
(* ---------------------------------------------------------------------- *)
get_for_object(rows, instance) ==
    LET of_instance(r) == r.object_pk = instance
    IN  SelectSeq(rows, of_instance)

\* filter(timestamp__gte=timestamp)
filter_timestamp_gte(rows, timestamp) ==
    LET gte(r) == r.timestamp >= timestamp
    IN  SelectSeq(rows, gte)

\* filter(timestamp=timestamp)
filter_timestamp_exact(rows, timestamp) ==
    LET exact(r) == r.timestamp = timestamp
    IN  SelectSeq(rows, exact)

\* the filter left out
filter_nothing(rows, timestamp) == rows

filter_timestamp_lte(rows, timestamp) ==
    LET lte(r) == r.timestamp <= timestamp
    IN  SelectSeq(rows, lte)

\* ORDER BY timestamp DESC: rows of equal timestamp keep the backend's order
RECURSIVE order_by_timestamp_desc(_)
order_by_timestamp_desc(rows) ==
    IF rows = <<>> THEN <<>>
    ELSE LET newest ==
                 CHOOSE i \in 1 .. Len(rows) :
                     /\ \A j \in 1 .. Len(rows) :
                            rows[j].timestamp <= rows[i].timestamp
                     /\ \A j \in 1 .. i - 1 :
                            rows[j].timestamp < rows[i].timestamp
         IN  <<rows[newest]>>
                 \o order_by_timestamp_desc(
                        SubSeq(rows, 1, newest - 1)
                            \o SubSeq(rows, newest + 1, Len(rows)))

first(rows) == IF rows = <<>> THEN NoLogEntry ELSE rows[1]

\* isinstance(log, LogEntry)
IsLogEntry(entry) == entry.id # NoneInt

\* lines 63-68
SelectedLog(rows, order, instance, timestamp) ==
    first(order_by_timestamp_desc(
              filter_timestamp_lte(get_for_object(Table(rows, order), instance),
                                   timestamp)))

(* ---------------------------------------------------------------------- *)
(* Decoding the payload                                                    *)
(* ---------------------------------------------------------------------- *)
\* dict and list have a copy method; None has none (AttributeError)
HasCopy(object) == object.type \in {"dict", "list"}

\* the object itself, where a copy was meant
NoCopy(object) == object

\* dict.copy() / list.copy(): a new object with the same items
Copy(object) == [object EXCEPT !.owner = Fresh]

\* bool(object)
Truthy(object) ==
    CASE object.type = "dict" -> \E f \in FieldNames : object.dict[f] # Absent
      [] object.type = "list" -> object.list # <<>>
      [] OTHER -> FALSE

\* isinstance(log.serialized_data, dict)
IsDict(data) == data.type = "dict"

\* log.serialized_data.get("fields", {})
GetFields(data) == IF data.has_fields THEN data.fields ELSE EmptyDict

HistoricalObjectState(log_found, serialized_fields, timestamp, log_entry_id) ==
    [type |-> "HistoricalObjectState",
     log_found |-> log_found,
     serialized_fields |-> serialized_fields,
     timestamp |-> timestamp,
     log_entry_id |-> log_entry_id]

\* an AttributeError leaving get_object_state_at_timestamp
ObjectStateError ==
    [type |-> "AttributeError",
     log_found |-> FALSE,
     serialized_fields |-> NoneObject,
     timestamp |-> NoneInt,
     log_entry_id |-> NoneInt]

\* the exception None.copy() raises
AttributeError == JsonObject("AttributeError", EmptyItems, <<>>, Fresh)

IsError(object) == object.type = "AttributeError"

\* lines 74-78 without "or None"
SerializedFieldsKeepEmpty(data) ==
    IF IsDict(data)
        THEN IF HasCopy(GetFields(data))
                 THEN Copy(GetFields(data))
                 ELSE AttributeError
        ELSE NoneObject

\* lines 74-78 with an empty dict in the else branch
SerializedFieldsElseEmpty(data) ==
    IF IsDict(data)
        THEN IF HasCopy(GetFields(data))
                 THEN IF Truthy(Copy(GetFields(data)))
                          THEN Copy(GetFields(data))
                          ELSE NoneObject
                 ELSE AttributeError
        ELSE EmptyDict

\* lines 74-78: the value of serialized_fields, or the exception raised
SerializedFields(data) ==
    IF IsDict(data)
        THEN IF HasCopy(GetFields(data))
                 THEN IF Truthy(Copy(GetFields(data)))
                          THEN Copy(GetFields(data))
                          ELSE NoneObject
                 ELSE AttributeError
        ELSE NoneObject

\* lines 50-86
get_object_state_at_timestamp(rows, order, instance, timestamp) ==
    LET entry == SelectedLog(rows, order, instance, timestamp)
    IN  IF ~IsLogEntry(entry)
            THEN HistoricalObjectState(FALSE, NoneObject, NoneInt, NoneInt)
        ELSE IF IsError(SerializedFields(entry.serialized_data))
            THEN ObjectStateError
        ELSE HistoricalObjectState(TRUE, SerializedFields(entry.serialized_data),
                                   entry.timestamp, entry.id)

HistoricalFieldState(log_found, field_found, field_name, value, timestamp, log_entry_id) ==
    [type |-> "HistoricalFieldState",
     log_found |-> log_found,
     field_found |-> field_found,
     field_name |-> field_name,
     value |-> value,
     timestamp |-> timestamp,
     log_entry_id |-> log_entry_id]

\* the AttributeError of the nested call leaving get_field_state_at_timestamp
FieldStateError ==
    [type |-> "AttributeError",
     log_found |-> FALSE,
     field_found |-> FALSE,
     field_name |-> None,
     value |-> None,
     timestamp |-> NoneInt,
     log_entry_id |-> NoneInt]

\* isinstance(fields, dict) and field_name in fields
Contains(fields, field_name) ==
    fields.type = "dict" /\ fields.dict[field_name] # Absent

\* lines 88-131 carrying the requested timestamp instead of the snapshot's
get_field_state_requested_timestamp(rows, order, instance, field_name, timestamp) ==
    LET object_state ==
            get_object_state_at_timestamp(rows, order, instance, timestamp)
        fields == object_state.serialized_fields
    IN  IF object_state.type = "AttributeError"
            THEN FieldStateError
        ELSE IF ~object_state.log_found
            THEN HistoricalFieldState(FALSE, FALSE, field_name, None, NoneInt,
                                      NoneInt)
        ELSE IF ~Contains(fields, field_name)
            THEN HistoricalFieldState(TRUE, FALSE, field_name, None, timestamp,
                                      object_state.log_entry_id)
        ELSE HistoricalFieldState(TRUE, TRUE, field_name,
                                  fields.dict[field_name], timestamp,
                                  object_state.log_entry_id)

\* lines 88-131
get_field_state_at_timestamp(rows, order, instance, field_name, timestamp) ==
    LET object_state ==
            get_object_state_at_timestamp(rows, order, instance, timestamp)
        fields == object_state.serialized_fields
    IN  IF object_state.type = "AttributeError"
            THEN FieldStateError
        ELSE IF ~object_state.log_found
            THEN HistoricalFieldState(FALSE, FALSE, field_name, None, NoneInt,
                                      NoneInt)
        ELSE IF ~Contains(fields, field_name)
            THEN HistoricalFieldState(TRUE, FALSE, field_name, None,
                                      object_state.timestamp,
                                      object_state.log_entry_id)
        ELSE HistoricalFieldState(TRUE, TRUE, field_name,
                                  fields.dict[field_name],
                                  object_state.timestamp,
                                  object_state.log_entry_id)

(* ---------------------------------------------------------------------- *)
(* The calls                                                               *)
(* ---------------------------------------------------------------------- *)
NoCall ==
    [type |-> "NoCall", log_found |-> FALSE, serialized_fields |-> NoneObject,
     timestamp |-> NoneInt, log_entry_id |-> NoneInt]

GetObjectState(instance, timestamp) ==
    /\ returned' = get_object_state_at_timestamp(log, scan, instance, timestamp)
    /\ UNCHANGED <<log, scan>>

GetFieldState(instance, field_name, timestamp) ==
    /\ returned' =
           get_field_state_at_timestamp(log, scan, instance, field_name,
                                        timestamp)
    /\ UNCHANGED <<log, scan>>

\* the row of the table that owns a mapping, rewritten through an alias of it
WriteThrough(rows, owner, field_name, value) ==
    [i \in 1 .. Len(rows) |->
        IF rows[i].id = owner
            THEN [rows[i] EXCEPT
                     !.serialized_data.fields.dict[field_name] = value]
            ELSE rows[i]]

\* The caller assigns state.serialized_fields[field_name] = Altered on the
\* result it holds; the assignment reaches a row only if the mapping is the
\* row's own object.
CallerAlters(field_name) ==
    /\ returned.type = "HistoricalObjectState"
    /\ returned.serialized_fields.type = "dict"
    /\ returned.serialized_fields.dict[field_name] # Altered
    /\ returned' =
           [returned EXCEPT !.serialized_fields.dict[field_name] = Altered]
    /\ log' =
           IF returned.serialized_fields.owner = Fresh
               THEN log
               ELSE WriteThrough(log, returned.serialized_fields.owner,
                                 field_name, Altered)
    /\ UNCHANGED scan

Init ==
    /\ log = <<>>
    /\ scan \in {"forward", "backward"}
    /\ returned = NoCall

Next ==
    \/ \E write \in Writes : CreateLogEntry(write[1], write[2], write[3])
    \/ \E instance \in Instances, timestamp \in QueryTimestamps :
            GetObjectState(instance, timestamp)
    \/ \E instance \in Instances, field_name \in FieldNames,
          timestamp \in QueryTimestamps :
            GetFieldState(instance, field_name, timestamp)
    \/ \E field_name \in FieldNames : CallerAlters(field_name)

Spec == Init /\ [][Next]_vars

(* ---------------------------------------------------------------------- *)
(* What the claims speak of                                                *)
(* ---------------------------------------------------------------------- *)
\* the rows of an instance that are not after a timestamp
Snapshots(instance, timestamp) ==
    { k \in 1 .. Len(log) :
        log[k].object_pk = instance /\ log[k].timestamp <= timestamp }

\* those of them that carry the greatest timestamp
Newest(instance, timestamp) ==
    { k \in Snapshots(instance, timestamp) :
        \A j \in Snapshots(instance, timestamp) :
            log[j].timestamp <= log[k].timestamp }

ObjectAnswer(instance, timestamp) ==
    get_object_state_at_timestamp(log, scan, instance, timestamp)

FieldAnswer(instance, field_name, timestamp) ==
    get_field_state_at_timestamp(log, scan, instance, field_name, timestamp)

ObjectNotFound == HistoricalObjectState(FALSE, NoneObject, NoneInt, NoneInt)

FieldNotFound(field_name) ==
    HistoricalFieldState(FALSE, FALSE, field_name, None, NoneInt, NoneInt)

\* the payload is a dict whose "fields" entry is a dict
HasFieldsDict(data) ==
    data.type = "dict" /\ data.has_fields /\ data.fields.type = "dict"

\* C1: whenever the instance has a snapshot at or before T, what the object
\* query gives is a result with log_found = TRUE, the greatest snapshot
\* timestamp <= T, and the id of a snapshot of the instance with that
\* timestamp, whatever the payload.
C1_NewestSnapshotReturned ==
    \A instance \in Instances, timestamp \in QueryTimestamps :
        (/\ Snapshots(instance, timestamp) # {}
         /\ returned = ObjectAnswer(instance, timestamp)) =>
            /\ returned.type = "HistoricalObjectState"
            /\ returned.log_found
            /\ \E k \in Newest(instance, timestamp) :
                   /\ returned.timestamp = log[k].timestamp
                   /\ returned.log_entry_id = log[k].id

\* C2: when the instance has no snapshot at or before T, the object query
\* returns log_found = FALSE and nothing else, the field query returns
\* log_found = FALSE, field_found = FALSE, the requested name and nothing
\* else, and neither raises.
C2_NoSnapshotNotFound ==
    \A instance \in Instances, timestamp \in QueryTimestamps :
        Snapshots(instance, timestamp) = {} =>
            /\ ObjectAnswer(instance, timestamp) = ObjectNotFound
            /\ \A field_name \in FieldNames :
                   FieldAnswer(instance, field_name, timestamp)
                       = FieldNotFound(field_name)

C2_Witness ==
    /\ returned = FieldNotFound("name")
    /\ Snapshots(1, 1) = {}
    /\ \E k \in 1 .. Len(log) : log[k].object_pk = 1 /\ log[k].timestamp > 1

\* C3: for T1 < T2, if a snapshot is selected for T1 then one is selected for
\* T2, and it is not older than the one selected for T1; the results the two
\* queries return say the same.
C3_SelectionMonotonic ==
    \A instance \in Instances, t1 \in QueryTimestamps, t2 \in QueryTimestamps :
        LET entry1 == SelectedLog(log, scan, instance, t1)
            entry2 == SelectedLog(log, scan, instance, t2)
            state1 == ObjectAnswer(instance, t1)
            state2 == ObjectAnswer(instance, t2)
        IN  (t1 < t2 /\ IsLogEntry(entry1)) =>
                /\ IsLogEntry(entry2)
                /\ entry2.timestamp >= entry1.timestamp
                /\ (state1.log_found /\ state2.type = "HistoricalObjectState")
                       => (state2.log_found
                              /\ state2.timestamp >= state1.timestamp)

C3_Witness ==
    /\ returned.type = "HistoricalObjectState"
    /\ returned.log_found
    /\ returned.timestamp = 2
    /\ ObjectAnswer(1, 2) = returned
    /\ ObjectAnswer(1, 1).log_found
    /\ ObjectAnswer(1, 1).timestamp = 1

\* C4: the field query and the object query for the same instance and T end
\* alike: the same log_found, and when a snapshot is found the same timestamp
\* and the same log_entry_id.
C4_FieldProjectionConsistent ==
    \A instance \in Instances, field_name \in FieldNames,
       timestamp \in QueryTimestamps :
        LET object_state == ObjectAnswer(instance, timestamp)
            field_state == FieldAnswer(instance, field_name, timestamp)
        IN  /\ (field_state.type = "AttributeError")
                   <=> (object_state.type = "AttributeError")
            /\ field_state.log_found = object_state.log_found
            /\ field_state.log_found =>
                   /\ field_state.timestamp = object_state.timestamp
                   /\ field_state.log_entry_id = object_state.log_entry_id

C4_Witness ==
    /\ returned.type = "HistoricalFieldState"
    /\ returned.log_found
    /\ returned = FieldAnswer(1, "name", 2)
    /\ returned.timestamp = 1
    /\ returned.log_entry_id = 2
    /\ Len(log) = 2

\* C5: whenever a snapshot is selected, what the field query gives is a result
\* with field_found = TRUE exactly when the snapshot's fields mapping holds the
\* requested name, with that mapping's value (None included); otherwise
\* field_found = FALSE and no value. field_name is the requested name, and
\* field_found implies log_found.
C5_FieldProjection ==
    \A instance \in Instances, field_name \in FieldNames,
       timestamp \in QueryTimestamps :
        LET entry == SelectedLog(log, scan, instance, timestamp)
            field_state == returned
            held == /\ HasFieldsDict(entry.serialized_data)
                    /\ entry.serialized_data.fields.dict[field_name] # Absent
        IN  (/\ IsLogEntry(entry)
             /\ returned = FieldAnswer(instance, field_name, timestamp)) =>
                /\ field_state.type = "HistoricalFieldState"
                /\ field_state.field_name = field_name
                /\ field_state.field_found <=> held
                /\ field_state.field_found => field_state.log_found
                /\ field_state.value =
                       IF held
                           THEN entry.serialized_data.fields.dict[field_name]
                           ELSE None

\* C6: when the selected snapshot's "fields" is an empty mapping, the object
\* query returns log_found = TRUE, serialized_fields = None (not an empty
\* mapping), the snapshot's timestamp and id, and the field query returns
\* field_found = FALSE for every name.
C6_EmptyFieldsAbsent ==
    \A instance \in Instances, timestamp \in QueryTimestamps :
        LET entry == SelectedLog(log, scan, instance, timestamp)
        IN  (/\ IsLogEntry(entry)
             /\ HasFieldsDict(entry.serialized_data)
             /\ ~Truthy(entry.serialized_data.fields)) =>
                /\ ObjectAnswer(instance, timestamp) =
                       HistoricalObjectState(TRUE, NoneObject, entry.timestamp,
                                             entry.id)
                /\ \A field_name \in FieldNames :
                       FieldAnswer(instance, field_name, timestamp) =
                           HistoricalFieldState(TRUE, FALSE, field_name, None,
                                                entry.timestamp, entry.id)

C6_Witness ==
    /\ returned = HistoricalObjectState(TRUE, NoneObject, 2, 2)
    /\ Len(log) = 2
    /\ log[2].object_pk = 1
    /\ log[2].timestamp = 2
    /\ HasFieldsDict(log[2].serialized_data)
    /\ ~Truthy(log[2].serialized_data.fields)
    /\ ObjectAnswer(1, 2) = returned

\* C7: when every newest snapshot at or before T has a serialized_data that is
\* None or no dict, the object query returns log_found = TRUE,
\* serialized_fields = None and the timestamp and id of such a snapshot, never
\* an older one, and the field query returns log_found = TRUE and
\* field_found = FALSE for every name; nothing is raised.
C7_MalformedPayloadTolerated ==
    \A instance \in Instances, timestamp \in QueryTimestamps :
        (/\ Newest(instance, timestamp) # {}
         /\ \A k \in Newest(instance, timestamp) :
                log[k].serialized_data.type # "dict") =>
            \E k \in Newest(instance, timestamp) :
                /\ ObjectAnswer(instance, timestamp) =
                       HistoricalObjectState(TRUE, NoneObject, log[k].timestamp,
                                             log[k].id)
                /\ \A field_name \in FieldNames :
                       FieldAnswer(instance, field_name, timestamp) =
                           HistoricalFieldState(TRUE, FALSE, field_name, None,
                                                log[k].timestamp, log[k].id)

C7_Witness ==
    /\ Len(log) = 2
    /\ log[1].object_pk = 1 /\ log[2].object_pk = 1
    /\ log[1].timestamp = 1 /\ log[2].timestamp = 2
    /\ Truthy(GetFields(log[1].serialized_data))
    /\ HasFieldsDict(log[1].serialized_data)
    /\ log[2].serialized_data.type = "str"
    /\ returned = HistoricalFieldState(TRUE, FALSE, "name", None, 2, 2)

\* C8: whatever the selected snapshot's payload is, the object query gives a
\* result, and its serialized_fields is present only if the snapshot carried a
\* non-empty fields mapping: never an empty one, never a value that is no
\* mapping.
C8_SerializedFieldsIsMappingOrNone ==
    \A instance \in Instances, timestamp \in QueryTimestamps :
        LET entry == SelectedLog(log, scan, instance, timestamp)
            state == returned
        IN  (/\ IsLogEntry(entry)
             /\ returned = ObjectAnswer(instance, timestamp)) =>
                /\ state.type = "HistoricalObjectState"
                /\ state.serialized_fields # NoneObject =>
                       /\ HasFieldsDict(entry.serialized_data)
                       /\ state.serialized_fields.type = "dict"
                       /\ Truthy(state.serialized_fields)
                       /\ state.serialized_fields.dict
                              = entry.serialized_data.fields.dict

\* a call of either query, or a caller's write into what it was returned
ReadStep ==
    \/ \E instance \in Instances, timestamp \in QueryTimestamps :
           GetObjectState(instance, timestamp)
    \/ \E instance \in Instances, field_name \in FieldNames,
          timestamp \in QueryTimestamps :
           GetFieldState(instance, field_name, timestamp)
    \/ \E field_name \in FieldNames : CallerAlters(field_name)

\* C9: no call adds, removes or alters a row, and a caller that alters the
\* mapping it was returned alters no row; so a repeated call on a table no
\* writer changed reads the same rows.
C9_ReadOnlyAndIsolated == [][(log' = log /\ scan' = scan) \/ ~ReadStep]_vars

C9_Witness ==
    /\ returned.type = "HistoricalObjectState"
    /\ returned.log_found
    /\ returned.serialized_fields.type = "dict"
    /\ returned.serialized_fields.dict["name"] = Altered
    /\ \E k \in 1 .. Len(log) :
           /\ log[k].id = returned.log_entry_id
           /\ log[k].serialized_data.fields.dict["name"] = "a"
    /\ ObjectAnswer(1, 2).serialized_fields.dict["name"] = "a"

\* C10: creating a snapshot whose timestamp is after T, or a snapshot of
\* another instance, leaves the answers of both queries for T as they were.
C10_StableUnderLaterAppends ==
    [][Len(log') = Len(log) + 1 =>
         \A instance \in Instances, timestamp \in QueryTimestamps :
             (\/ log'[Len(log')].timestamp > timestamp
              \/ log'[Len(log')].object_pk # instance) =>
                 /\ get_object_state_at_timestamp(log', scan', instance,
                                                  timestamp)
                        = ObjectAnswer(instance, timestamp)
                 /\ \A field_name \in FieldNames :
                        get_field_state_at_timestamp(log', scan', instance,
                                                     field_name, timestamp)
                            = FieldAnswer(instance, field_name, timestamp)]_vars

C10_Witness ==
    /\ Len(log) = 2
    /\ log[1].object_pk = 1 /\ log[2].object_pk = 1
    /\ log[1].timestamp = 1 /\ log[2].timestamp = 2
    /\ returned.type = "HistoricalObjectState"
    /\ returned.log_found
    /\ returned.log_entry_id = 1
    /\ returned = ObjectAnswer(1, 1)

====
